---- MODULE Spec2Model ----
(***************************************************************************)
(* rt_sort_csv.py: read a csv export (header + data rows), drop the rows   *)
(* that carry no data, sort the rest by a padded composite string, and     *)
(* write them back renumbered.                                             *)
(*                                                                         *)
(* Strings are sequences of code points, so that str.split, int(), the     *)
(* format specs of the f-string and str.__lt__ are computed as Python      *)
(* computes them.  A csv row is a sequence of strings, the file a sequence *)
(* of rows.  Python's 0-based index k is position k + 1 here.              *)
(***************************************************************************)
EXTENDS Integers, Sequences, FiniteSets

VARIABLES
    csv_rows,     \* list(csv_reader): the rows of the input file, header first
    arg_sort,     \* _args.sortfield (--sortfield, default -1)
    arg_name,     \* _args.namefield (--namefield, default -1)
    sort_field,   \* class attribute CSVRecord.sort_field
    name_field,   \* class attribute CSVRecord.name_field
    header,       \* local `header` of _process_input: a CSVRecord, or NoRecord
    rows,         \* local `rows`: the sorted CSVRecords
    opened,       \* the output file has been opened for writing (truncated)
    outfile,      \* the rows written to the output file so far
    widx,         \* `index` of the enumerate loop of _write_output
    pc,           \* position of the script
    error,        \* the exception that ended the run, or NoError
    run,          \* 1: the run on the original input; 2: the run on run 1's output
    first_out     \* the output file of run 1, kept for the second run

vars == <<csv_rows, arg_sort, arg_name, sort_field, name_field, header, rows,
          opened, outfile, widx, pc, error, run, first_out>>

----------------------------------------------------------------------------
(* Bounds of the model *)

\* the largest number of data rows in the input file
MaxRows == 2

----------------------------------------------------------------------------
(* Characters and strings *)

SPACE == 32
PLUS == 43
MINUS == 45
ZERO == 48
NINE == 57

EmptyStr == <<>>

IsDigit(c) == c >= ZERO /\ c <= NINE

\* str.__lt__: code point by code point, a proper prefix is smaller
RECURSIVE StrLt(_, _)
StrLt(a, b) ==
    IF b = <<>> THEN FALSE
    ELSE IF a = <<>> THEN TRUE
    ELSE IF Head(a) # Head(b) THEN Head(a) < Head(b)
    ELSE StrLt(Tail(a), Tail(b))

\* str.split(' '): cut at every single space, empty words are kept
RECURSIVE Split(_)
Split(s) ==
    IF \A i \in 1..Len(s) : s[i] # SPACE THEN <<s>>
    ELSE LET i == CHOOSE k \in 1..Len(s) :
                      s[k] = SPACE /\ \A j \in 1..(k - 1) : s[j] # SPACE
         IN  <<SubSeq(s, 1, i - 1)>> \o Split(SubSeq(s, i + 1, Len(s)))

\* the digits of a word without its sign
Unsigned(w) == IF w # <<>> /\ Head(w) \in {PLUS, MINUS} THEN Tail(w) ELSE w

\* int(w) succeeds: an optional sign and at least one decimal digit
\* (the words of the model hold no underscore and no white space)
IsInt(w) ==
    /\ Unsigned(w) # <<>>
    /\ \A i \in 1..Len(Unsigned(w)) : IsDigit(Unsigned(w)[i])

RECURSIVE DigitsValue(_)
DigitsValue(d) ==
    IF d = <<>> THEN 0
    ELSE 10 * DigitsValue(SubSeq(d, 1, Len(d) - 1)) + (d[Len(d)] - ZERO)

\* int(w) for a word with IsInt(w)
IntValue(w) ==
    IF Head(w) = MINUS THEN 0 - DigitsValue(Unsigned(w))
    ELSE DigitsValue(Unsigned(w))

\* str(n) for n >= 0
RECURSIVE StrNat(_)
StrNat(n) ==
    IF n < 10 THEN <<ZERO + n>>
    ELSE StrNat(n \div 10) \o <<ZERO + (n % 10)>>

RECURSIVE Repeat(_, _)
Repeat(c, n) == IF n <= 0 THEN <<>> ELSE <<c>> \o Repeat(c, n - 1)

\* format spec '<w>' of a str: left-justified, padded with spaces to at
\* least w characters, never truncated
FormatStr(s, w) == s \o Repeat(SPACE, w - Len(s))

\* format spec '0<w>' of an int: the sign, then zeros, then the digits, at
\* least w characters in all
FormatInt(n, w) ==
    LET sign == IF n < 0 THEN <<MINUS>> ELSE <<>>
        digits == StrNat(IF n < 0 THEN 0 - n ELSE n)
    IN  sign \o Repeat(ZERO, w - Len(sign) - Len(digits)) \o digits

----------------------------------------------------------------------------
(* Constants of the program *)

\* 'Receive Frequency'
ReceiveFrequency ==
    <<82, 101, 99, 101, 105, 118, 101, 32, 70, 114, 101, 113, 117, 101, 110, 99, 121>>

\* 'Name'
Name == <<78, 97, 109, 101>>

\* 'FRS/GMRS'
FRS_GMRS == <<70, 82, 83, 47, 71, 77, 82, 83>>

_SORT_FIELDS == {ReceiveFrequency}
_NAME_FIELDS == {Name}
_CHANNEL_SERVICES == {FRS_GMRS}

\* the class attributes before _process_input assigns them
DEFAULT_SORT_FIELD == 1
DEFAULT_NAME_FIELD == 7

\* the widths of f'{name:16}{channel:02}{field:9}'
NAME_WIDTH == 16
CHANNEL_WIDTH == 2
FIELD_WIDTH == 9

\* argparse's default for --sortfield and --namefield
NO_INDEX == 0 - 1

----------------------------------------------------------------------------
(* class CSVRecord *)

\* `header` before the assignment of line 195
NoRecord == [fields |-> <<>>, service_name |-> EmptyStr, service_channel |-> 0]

NoError == [type |-> "none", where |-> "none"]

\* the words of the name cell; needs nf < len(fields)
NameWords(fields, nf) == Split(fields[nf + 1])

IsServiceName(fields, nf) ==
    /\ Len(NameWords(fields, nf)) > 1
    /\ NameWords(fields, nf)[1] \in _CHANNEL_SERVICES

\* the exception CSVRecord.__init__ raises, "none" when it returns
CSVRecord_raises(fields, nf) ==
    IF nf >= Len(fields) THEN "IndexError"
    ELSE IF IsServiceName(fields, nf) /\ ~IsInt(NameWords(fields, nf)[2])
         THEN "ValueError"
    ELSE "none"

\* CSVRecord(fields) with the class attribute name_field = nf
CSVRecord(fields, nf) ==
    IF IsServiceName(fields, nf)
    THEN [fields |-> fields,
          service_name |-> NameWords(fields, nf)[1],
          service_channel |-> IntValue(NameWords(fields, nf)[2])]
    ELSE [fields |-> fields, service_name |-> EmptyStr, service_channel |-> 0]

\* _lexicographic_value raises IndexError
_lexicographic_value_raises(r, sf) == sf >= Len(r.fields)

_lexicographic_value(r, sf) ==
    FormatStr(r.service_name, NAME_WIDTH)
        \o FormatInt(r.service_channel, CHANNEL_WIDTH)
        \o FormatStr(r.fields[sf + 1], FIELD_WIDTH)

__eq__(a, b) ==
    /\ a.service_name = b.service_name
    /\ a.service_channel = b.service_channel
    /\ a.fields = b.fields

__lt__(a, b, sf) == StrLt(_lexicographic_value(a, sf), _lexicographic_value(b, sf))

\* functools.total_ordering derives __gt__ from __lt__ and __eq__:
\* not (a < b) and a != b
__gt__(a, b, sf) == ~__lt__(a, b, sf) /\ ~__eq__(a, b)

\* has_data looking at every cell, the first included (self._fields[0:])
has_data_all_cells(r) == \E i \in 1..Len(r.fields) : r.fields[i] # EmptyStr

\* has_data: some cell after the first is not the empty string.  ('is not'
\* compares identities; CPython has one empty str object, which the csv
\* reader returns for an empty cell, so it decides as != does.)
has_data(r) == \E i \in 2..Len(r.fields) : r.fields[i] # EmptyStr

\* set_index writing the 0-based position (str(value))
set_index_zero_based(r, value) == [r EXCEPT !.fields[1] = StrNat(value)]

\* set_index: the record after self._fields[0] = str(value + 1)
set_index(r, value) == [r EXCEPT !.fields[1] = StrNat(value + 1)]

----------------------------------------------------------------------------
(* _field_index *)

\* the for loop of _field_index from position i on: the 0-based index of
\* the first cell whose value is in field_names, Len(cells) if there is none
RECURSIVE _field_index_scan(_, _, _)
_field_index_scan(cells, field_names, i) ==
    IF i > Len(cells) THEN Len(cells)
    ELSE IF cells[i] \in field_names THEN i - 1
    ELSE _field_index_scan(cells, field_names, i + 1)

\* _field_index raises ValueError
_field_index_raises(cells, field_names, index) ==
    ~(index > NO_INDEX) /\ _field_index_scan(cells, field_names, 1) = Len(cells)

\* _field_index taking only a positive index as given (index > 0)
_field_index_positive(cells, field_names, index) ==
    IF index > 0 THEN index
    ELSE _field_index_scan(cells, field_names, 1)

_field_index(cells, field_names, index) ==
    IF index > NO_INDEX THEN index
    ELSE _field_index_scan(cells, field_names, 1)

----------------------------------------------------------------------------
(* sorted(filter(has_data, map(CSVRecord, csv_rows[1:]))) *)

\* the data rows, csv_rows[1:]
DataRows(file) == SubSeq(file, 2, Len(file))

\* map(CSVRecord, ...) raises: the exception of the first row that does
RECURSIVE map_raises(_, _)
map_raises(rs, nf) ==
    IF rs = <<>> THEN "none"
    ELSE IF CSVRecord_raises(Head(rs), nf) # "none" THEN CSVRecord_raises(Head(rs), nf)
    ELSE map_raises(Tail(rs), nf)

\* filter(lambda r: r.has_data(), map(CSVRecord, rs))
RECURSIVE filter_map(_, _)
filter_map(rs, nf) ==
    IF rs = <<>> THEN <<>>
    ELSE IF has_data(CSVRecord(Head(rs), nf))
         THEN <<CSVRecord(Head(rs), nf)>> \o filter_map(Tail(rs), nf)
    ELSE filter_map(Tail(rs), nf)

\* an insertion that is not stable: r goes before the first element that
\* is not less than it, so before the elements it compares equal to
RECURSIVE insert_before_equal(_, _, _)
insert_before_equal(s, r, sf) ==
    IF s = <<>> THEN <<r>>
    ELSE IF ~__lt__(Head(s), r, sf) THEN <<r>> \o s
    ELSE <<Head(s)>> \o insert_before_equal(Tail(s), r, sf)

\* one step of the insertion sort: r goes before the first element it is
\* less than, so after every element it is not less than
RECURSIVE insert(_, _, _)
insert(s, r, sf) ==
    IF s = <<>> THEN <<r>>
    ELSE IF __lt__(r, Head(s), sf) THEN <<r>> \o s
    ELSE <<Head(s)>> \o insert(Tail(s), r, sf)

\* sorted(recs): stable, compares with __lt__ only
RECURSIVE sorted(_, _)
sorted(recs, sf) ==
    IF recs = <<>> THEN <<>>
    ELSE insert(sorted(SubSeq(recs, 1, Len(recs) - 1), sf), recs[Len(recs)], sf)

\* sorted raises IndexError: with two or more records every record takes
\* part in a comparison, with fewer there is none
sorted_raises(recs, sf) ==
    /\ Len(recs) > 1
    /\ \E i \in 1..Len(recs) : _lexicographic_value_raises(recs[i], sf)

----------------------------------------------------------------------------
(* The inputs: the input file and the command line *)

Cell_Hash == <<35>>
Cell_1 == <<49>>
Cell_2 == <<50>>
Cell_3 == <<51>>
Cell_A == <<65>>
Cell_B == <<66>>
Cell_100 == <<49, 48, 48>>
Cell_146 == <<49, 52, 54>>
Cell_462 == <<52, 54, 50>>

\* 'FRS/GMRS <word>'
Channel(word) == FRS_GMRS \o <<SPACE>> \o word

\* a row as the programmer exports it: name in column 7, frequency in column 1
Row8(index, freq, name) ==
    <<index, freq, EmptyStr, EmptyStr, EmptyStr, EmptyStr, EmptyStr, name>>

Headers ==
    { Row8(Cell_Hash, ReceiveFrequency, Name),
      <<Cell_Hash, ReceiveFrequency, Name, EmptyStr, EmptyStr, EmptyStr, EmptyStr, Name>>,
      <<Cell_Hash, ReceiveFrequency, Name>>,
      Row8(Cell_Hash, Cell_A, Cell_B),
      Row8(Cell_Hash, ReceiveFrequency, Channel(Name)) }

RowSet ==
    { Row8(Cell_1, Cell_146, Cell_A),
      Row8(Cell_2, Cell_462, Channel(Cell_1)),
      <<Cell_1, Cell_146, Cell_A>>,
      <<Cell_2, Cell_146, Cell_B>>,
      <<Cell_3, EmptyStr, EmptyStr>>,
      <<Cell_2, Cell_462, Channel(Cell_2 \o <<ZERO>>)>>,
      <<Cell_1, Cell_146, Channel(Cell_100)>>,
      <<Cell_3, Cell_146, Channel(<<MINUS>> \o Cell_1)>>,
      <<Cell_3, Cell_146, Channel(<<MINUS>> \o Cell_2)>>,
      <<Cell_1, Cell_146, Channel(Cell_A)>>,
      <<Channel(Cell_1), Cell_100, EmptyStr>>,
      <<Cell_3>> }

\* --sortfield: absent, the index column, a column no row has
SortArgs == {NO_INDEX, 0, 9}

\* --namefield: absent, the index column, the third column
NameArgs == {NO_INDEX, 0, 2}

InputFiles ==
    {<<>>} \cup
    UNION { { <<h>> \o rs : rs \in [1..n -> RowSet] } : h \in Headers, n \in 0..MaxRows }

----------------------------------------------------------------------------
(* The script: __main__, _process_input, _write_output *)

Init ==
    /\ csv_rows \in InputFiles
    /\ arg_sort \in SortArgs
    /\ arg_name \in NameArgs
    /\ sort_field = DEFAULT_SORT_FIELD
    /\ name_field = DEFAULT_NAME_FIELD
    /\ header = NoRecord
    /\ rows = <<>>
    /\ opened = FALSE
    /\ outfile = <<>>
    /\ widx = 0
    /\ pc = "read_header"
    /\ error = NoError
    /\ run = 1
    /\ first_out = <<>>

\* the run ends with an exception of the given type, raised at pc
Raise(type) ==
    /\ pc' = "failed"
    /\ error' = [type |-> type, where |-> pc]

\* header = CSVRecord(csv_rows[0])
ReadHeader ==
    /\ pc = "read_header"
    /\ IF csv_rows = <<>>
       THEN Raise("IndexError") /\ UNCHANGED header
       ELSE IF CSVRecord_raises(csv_rows[1], name_field) # "none"
       THEN Raise(CSVRecord_raises(csv_rows[1], name_field)) /\ UNCHANGED header
       ELSE /\ header' = CSVRecord(csv_rows[1], name_field)
            /\ pc' = "sort_index"
            /\ UNCHANGED error
    /\ UNCHANGED <<csv_rows, arg_sort, arg_name, sort_field, name_field, rows,
                   opened, outfile, widx, run, first_out>>

\* CSVRecord.sort_field = _field_index(header, _SORT_FIELDS, sort_field)
ResolveSortField ==
    /\ pc = "sort_index"
    /\ IF _field_index_raises(header.fields, _SORT_FIELDS, arg_sort)
       THEN Raise("ValueError") /\ UNCHANGED sort_field
       ELSE /\ sort_field' = _field_index(header.fields, _SORT_FIELDS, arg_sort)
            /\ pc' = "name_index"
            /\ UNCHANGED error
    /\ UNCHANGED <<csv_rows, arg_sort, arg_name, name_field, header, rows,
                   opened, outfile, widx, run, first_out>>

\* CSVRecord.name_field = _field_index(header, _NAME_FIELDS, name_field)
ResolveNameField ==
    /\ pc = "name_index"
    /\ IF _field_index_raises(header.fields, _NAME_FIELDS, arg_name)
       THEN Raise("ValueError") /\ UNCHANGED name_field
       ELSE /\ name_field' = _field_index(header.fields, _NAME_FIELDS, arg_name)
            /\ pc' = "sort_rows"
            /\ UNCHANGED error
    /\ UNCHANGED <<csv_rows, arg_sort, arg_name, sort_field, header, rows,
                   opened, outfile, widx, run, first_out>>

\* the sort step with the output file opened next to the input file
\* (with open(filename) as infile, open(output, 'w') as outfile)
SortRows_OpensOutput ==
    /\ pc = "sort_rows"
    /\ opened' = TRUE
    /\ IF map_raises(DataRows(csv_rows), name_field) # "none"
       THEN Raise(map_raises(DataRows(csv_rows), name_field)) /\ UNCHANGED rows
       ELSE IF sorted_raises(filter_map(DataRows(csv_rows), name_field), sort_field)
       THEN Raise("IndexError") /\ UNCHANGED rows
       ELSE /\ rows' = sorted(filter_map(DataRows(csv_rows), name_field), sort_field)
            /\ pc' = "write_header"
            /\ UNCHANGED error
    /\ UNCHANGED <<csv_rows, arg_sort, arg_name, sort_field, name_field, header,
                   outfile, widx, run, first_out>>

\* rows = sorted(filter(lambda r: r.has_data(), map(CSVRecord, csv_rows[1:])))
SortRows ==
    /\ pc = "sort_rows"
    /\ IF map_raises(DataRows(csv_rows), name_field) # "none"
       THEN Raise(map_raises(DataRows(csv_rows), name_field)) /\ UNCHANGED rows
       ELSE IF sorted_raises(filter_map(DataRows(csv_rows), name_field), sort_field)
       THEN Raise("IndexError") /\ UNCHANGED rows
       ELSE /\ rows' = sorted(filter_map(DataRows(csv_rows), name_field), sort_field)
            /\ pc' = "write_header"
            /\ UNCHANGED error
    /\ UNCHANGED <<csv_rows, arg_sort, arg_name, sort_field, name_field, header,
                   opened, outfile, widx, run, first_out>>

\* open(filename, 'w') and csv_writer.writerow(header)
WriteHeader ==
    /\ pc = "write_header"
    /\ opened' = TRUE
    /\ outfile' = <<header.fields>>
    /\ widx' = 0
    /\ pc' = "write_rows"
    /\ UNCHANGED <<csv_rows, arg_sort, arg_name, sort_field, name_field, header,
                   rows, error, run, first_out>>

\* one pass of the loop: row.set_index(index) and csv_writer.writerow(row)
WriteRow ==
    /\ pc = "write_rows"
    /\ widx < Len(rows)
    /\ rows' = [rows EXCEPT ![widx + 1] = set_index(rows[widx + 1], widx)]
    /\ outfile' = Append(outfile, set_index(rows[widx + 1], widx).fields)
    /\ widx' = widx + 1
    /\ UNCHANGED <<csv_rows, arg_sort, arg_name, sort_field, name_field, header,
                   opened, pc, error, run, first_out>>

\* the loop is exhausted: the file is closed and the script ends
Finish ==
    /\ pc = "write_rows"
    /\ widx = Len(rows)
    /\ pc' = "done"
    /\ UNCHANGED <<csv_rows, arg_sort, arg_name, sort_field, name_field, header,
                   rows, opened, outfile, widx, error, run, first_out>>

\* the script is started again, with the same options, on the file it wrote
Rerun ==
    /\ pc = "done"
    /\ run = 1
    /\ run' = 2
    /\ first_out' = outfile
    /\ csv_rows' = outfile
    /\ sort_field' = DEFAULT_SORT_FIELD
    /\ name_field' = DEFAULT_NAME_FIELD
    /\ header' = NoRecord
    /\ rows' = <<>>
    /\ opened' = FALSE
    /\ outfile' = <<>>
    /\ widx' = 0
    /\ pc' = "read_header"
    /\ UNCHANGED <<arg_sort, arg_name, error>>

Next ==
    \/ ReadHeader
    \/ ResolveSortField
    \/ ResolveNameField
    \/ SortRows
    \/ WriteHeader
    \/ WriteRow
    \/ Finish
    \/ Rerun

Spec == Init /\ [][Next]_vars

TypeOK ==
    /\ pc \in {"read_header", "sort_index", "name_index", "sort_rows",
               "write_header", "write_rows", "done", "failed"}
    /\ run \in {1, 2}
    /\ sort_field \in Nat
    /\ name_field \in Nat
    /\ widx \in 0..Len(rows)
    /\ (pc = "failed") = (error # NoError)

----------------------------------------------------------------------------
(* Vocabulary of the properties *)

\* the run has written its whole output
Completed == pc = "done"

\* the data rows of the output file
OutRows == DataRows(outfile)

\* a raw row carries data: some cell after the first is not empty
RowHasData(row) == \E i \in 2..Len(row) : row[i] # EmptyStr

\* a raw row without its first cell
NonIndexCells(row) == SubSeq(row, 2, Len(row))

\* the positions in the input file of the data rows that carry data
Retained == {i \in 2..Len(csv_rows) : RowHasData(csv_rows[i])}

\* a raw row is a service record, '<ServiceName> <N> ...', for name index nf
IsServiceRow(row, nf) ==
    /\ nf < Len(row)
    /\ Len(Split(row[nf + 1])) >= 2
    /\ Split(row[nf + 1])[1] \in _CHANNEL_SERVICES
    /\ IsInt(Split(row[nf + 1])[2])

ServiceOf(row, nf) == Split(row[nf + 1])[1]
ChannelOf(row, nf) == IntValue(Split(row[nf + 1])[2])

\* s is the decimal string of the positive integer k
IsDecimalOf(s, k) ==
    /\ s # <<>>
    /\ \A i \in 1..Len(s) : IsDigit(s[i])
    /\ s[1] # ZERO
    /\ DigitsValue(s) = k

\* the sort index has been assigned from _field_index
SortFieldResolved ==
    \/ pc \in {"name_index", "sort_rows", "write_header", "write_rows", "done"}
    \/ pc = "failed" /\ error.where \in {"name_index", "sort_rows"}

\* the name index has been assigned from _field_index
NameFieldResolved ==
    \/ pc \in {"sort_rows", "write_header", "write_rows", "done"}
    \/ pc = "failed" /\ error.where = "sort_rows"

\* result is what field resolution owes for this header, names and option
ResolvedAs(cells, names, arg, result) ==
    IF arg >= 0 THEN result = arg
    ELSE /\ result < Len(cells)
         /\ cells[result + 1] \in names
         /\ \A j \in 1..result : cells[j] \notin names

NoCellNamed(cells, names) == \A j \in 1..Len(cells) : cells[j] \notin names

----------------------------------------------------------------------------
(* The properties *)

\* C1: in a completed run every service record of the output comes after
\* every ordinary record, and the records of one service are in ascending
\* order of their channel number N, for every N that parses.
C1_ServiceGrouping ==
    Completed =>
        \A i, j \in 1..Len(OutRows) :
            /\ (IsServiceRow(OutRows[i], name_field) /\ ~IsServiceRow(OutRows[j], name_field))
                   => j < i
            /\ (/\ i < j
                /\ IsServiceRow(OutRows[i], name_field)
                /\ IsServiceRow(OutRows[j], name_field)
                /\ ServiceOf(OutRows[i], name_field) = ServiceOf(OutRows[j], name_field))
                   => ChannelOf(OutRows[i], name_field) <= ChannelOf(OutRows[j], name_field)

\* C2: in a completed run the header is written unchanged and the output
\* data rows, without their first cell, are exactly the input data rows that
\* carry data, each once: none dropped, none added, none changed.
C2_FilterExact ==
    Completed =>
        /\ outfile[1] = csv_rows[1]
        /\ Len(OutRows) = Cardinality(Retained)
        /\ \E f \in [1..Len(OutRows) -> Retained] :
               /\ \A a, b \in 1..Len(OutRows) : f[a] = f[b] => a = b
               /\ \A k \in 1..Len(OutRows) :
                      NonIndexCells(OutRows[k]) = NonIndexCells(csv_rows[f[k]])

C2_Witness ==
    /\ Completed
    /\ run = 1
    /\ Len(csv_rows) = 3
    /\ Cardinality(Retained) = 1
    /\ Len(OutRows) = 1

\* C3: the first cell of the k-th data row written is the decimal string of k.
C3_Renumbered ==
    \A k \in 1..Len(OutRows) : IsDecimalOf(OutRows[k][1], k)

C3_Witness ==
    /\ Completed
    /\ run = 1
    /\ Len(OutRows) = 2
    /\ \A k \in 1..2 : \A i \in 2..Len(csv_rows) : csv_rows[i][1] # OutRows[k][1]

\* C4: the sort is stable: retained rows whose keys compare equal (neither
\* is less than the other) are in the sorted list in their input order.
C4_Stable ==
    (pc = "write_header" /\ Len(rows) > 1) =>
        \A k \in 1..Len(rows) :
            LET SameKey(x) == /\ ~__lt__(x, rows[k], sort_field)
                              /\ ~__lt__(rows[k], x, sort_field)
            IN  SelectSeq(rows, SameKey)
                    = SelectSeq(filter_map(DataRows(csv_rows), name_field), SameKey)

C4_Witness ==
    /\ pc = "write_header"
    /\ Len(rows) = 2
    /\ ~__lt__(rows[1], rows[2], sort_field)
    /\ ~__lt__(rows[2], rows[1], sort_field)
    /\ NonIndexCells(rows[1].fields) # NonIndexCells(rows[2].fields)

\* C5 as stated: the run on a completed run's own output, with the same
\* options, writes that output again, whatever the options.
C5_Idempotent ==
    (run = 2 /\ pc \in {"done", "failed"}) => (Completed /\ outfile = first_out)

\* C5 as amended: when neither resolved index is 0, the index column, the
\* run on a completed run's own output completes and writes that output again.
C5_IdempotentOffIndexColumn ==
    (run = 2 /\ sort_field >= 1 /\ name_field >= 1) =>
        /\ pc # "failed"
        /\ Completed => outfile = first_out

C5_Witness ==
    /\ run = 2
    /\ Completed
    /\ sort_field >= 1
    /\ name_field >= 1
    /\ Len(OutRows) = 2
    /\ IsServiceRow(OutRows[2], name_field)

\* C6: a run that fails has not opened its output nor written a row to it.
C6_NoPartialOutput ==
    pc = "failed" => (~opened /\ outfile = <<>>)

C6_Witness ==
    /\ pc = "failed"
    /\ error.where = "sort_rows"
    /\ error.type = "IndexError"
    /\ Cardinality(Retained) = 2

\* C7: a run that gets to writing has no retained row with fewer cells than
\* the sort index or the name index needs: such a row makes the run fail.
C7_ShortRowFatal ==
    pc \in {"write_header", "write_rows", "done"} =>
        \A i \in Retained :
            Len(csv_rows[i]) > sort_field /\ Len(csv_rows[i]) > name_field

\* C8: _field_index gives back a non-negative index option as it is, else
\* the position of the first header cell that equals a candidate name, and
\* raises exactly when the option is negative and no header cell matches.
C8_FieldResolution ==
    /\ SortFieldResolved => ResolvedAs(csv_rows[1], _SORT_FIELDS, arg_sort, sort_field)
    /\ NameFieldResolved => ResolvedAs(csv_rows[1], _NAME_FIELDS, arg_name, name_field)
    /\ (pc = "failed" /\ error.where = "sort_index")
           => (arg_sort < 0 /\ NoCellNamed(csv_rows[1], _SORT_FIELDS))
    /\ (pc = "failed" /\ error.where = "name_index")
           => (arg_name < 0 /\ NoCellNamed(csv_rows[1], _NAME_FIELDS))

C8_Witness ==
    /\ Completed
    /\ arg_sort = 9
    /\ sort_field = 9
    /\ ~NoCellNamed(csv_rows[1], _SORT_FIELDS)
    /\ arg_name < 0
    /\ name_field = 2
    /\ csv_rows[1][8] \in _NAME_FIELDS

\* C9: the comparisons of CSVRecord are a total order consistent with ==:
\* of a < b, a == b, a > b exactly one holds, and a > b and b > a never both.
C9_TotalOrder ==
    (pc = "write_header" /\ Len(rows) > 1) =>
        \A i, j \in 1..Len(rows) :
            LET a == rows[i]
                b == rows[j]
                lt == __lt__(a, b, sort_field)
                eq == __eq__(a, b)
                gt == __gt__(a, b, sort_field)
            IN  /\ (lt /\ ~eq /\ ~gt) \/ (~lt /\ eq /\ ~gt) \/ (~lt /\ ~eq /\ gt)
                /\ ~(gt /\ __gt__(b, a, sort_field))

\* C10: both indices are resolved before any CSVRecord is built, the one
\* of the header included, so a header of fewer than 8 cells whose fields
\* can be resolved does not make the run fail.
C10_ResolvedBeforeRecords ==
    /\ header # NoRecord => (SortFieldResolved /\ NameFieldResolved)
    /\ (/\ pc = "failed"
        /\ error.where = "read_header"
        /\ csv_rows # <<>>
        /\ Len(csv_rows[1]) <= DEFAULT_NAME_FIELD)
           => \/ arg_sort < 0 /\ NoCellNamed(csv_rows[1], _SORT_FIELDS)
              \/ arg_name < 0 /\ NoCellNamed(csv_rows[1], _NAME_FIELDS)

====
